---- MODULE Spec2Model ----
(***************************************************************************)
(* WhatsAppSocketManager (src/src/modules/whatsapp/WhatsAppSocketManager.ts) *)
(* as a state machine.  One createSocketWhatsApp invocation is a "call";    *)
(* the socket a call opens with makeWASocket is identified with the call,   *)
(* so Calls is also the set of transport handles.  The JavaScript runtime   *)
(* runs every job to completion; an action is one job: the code between     *)
(* two suspension points (await) of a method, or a whole listener.          *)
(***************************************************************************)
EXTENDS Integers, Sequences, FiniteSets, TLC

\* ---- bounds of the model
MaxCalls == 2      \* createSocketWhatsApp invocations (and so handles) in one run
MaxEvents == 2     \* connection.update events handled in one run
\* The runs of SpecWide have room for one call and one event more.
WideCalls == MaxCalls + 1
WideEvents == MaxEvents + 1

\* ---- program constants
loggedOut == 401         \* DisconnectReason.loggedOut
restartRequired == 515   \* DisconnectReason.restartRequired
connectionClosed == 428  \* some other DisconnectReason code
NoStatus == 0            \* statusCode undefined (no lastDisconnect.error)
None == 0                \* Map.get(name) === undefined

Names == {"acct1", "acct2"}
NoName == "-"
Subscribers == {"s1", "s2"}
Calls == 1..WideCalls
\* CredentialMaterial is opaque to the manager.  The model tells the blob
\* initAuthCreds() makes ("fresh") from one a socket has updated ("paired");
\* "absent" is a missing tokens/<name> folder (for a call: nothing loaded).
Creds == {"fresh", "paired"}
Absent == "absent"
\* No getSocketByName call has been made.
NoLookup == [name |-> NoName, socket |-> None]
StatusCodes == {loggedOut, restartRequired, connectionClosed, NoStatus}

\* Partial<ConnectionState>: the fields handleConnectionUpdate reads.
\* connection "none" is an update without a connection field (a QR code).
Updates ==
  {[connection |-> "none", statusCode |-> NoStatus],
   [connection |-> "open", statusCode |-> NoStatus]}
  \cup {[connection |-> "close", statusCode |-> s] : s \in StatusCodes}

VARIABLES
  pc,          \* pc[c]: where call c of createSocketWhatsApp stands
  cname,       \* cname[c]: the name argument of call c
  parent,      \* parent[c]: the update whose handler awaits call c (0: an outside caller)
  resumed,     \* resumed[c]: the awaiting handler has continued past line 77
  result,      \* result[c]: how the promise of call c settled
  auth,        \* auth[c]: the `state` call c loaded, and then opened its socket with
  live,        \* live[c]: the socket of call c is opened and has not closed
  sockets,     \* this.sockets
  tokens,      \* the tokens folder: tokens[n] is the blob stored in tokens/<n>
  subjects,    \* the keys of this.connectionUpdateSubjects
  subscribedTo,\* subscribedTo[s]: the name whose Subject s observes
  received,    \* received[s]: the updates delivered to s, in order
  \* history, read by the properties only
  subAt,       \* subAt[s]: how many updates the Subject had emitted when s subscribed
  pubLog,      \* pubLog[n]: the updates passed to Subject.next of n, in order
  owed,        \* owed[s]: the updates handled for the name of s while s was subscribed
  closeCode,   \* closeCode[h]: the statusCode of the close the socket of call h emitted
  purged,      \* the names whose loggedOut close was handled with no call started since
  nEvents,     \* the number of connection.update events handled so far
  opened,      \* opened[h]: how many updates with connection "open" the socket of call h emitted
  lookup       \* the last getSocketByName call: its argument and what it returned

vars == <<pc, cname, parent, resumed, result, auth, live, sockets, tokens,
          subjects, subscribedTo, received, subAt, pubLog, owed, closeCode,
          purged, nEvents, opened, lookup>>

callVars == <<pc, cname, parent, resumed, result>>
subVars == <<subjects, subscribedTo, subAt>>
InFlight == {"called", "loaded"}

Init ==
  /\ pc = [c \in Calls |-> "idle"]
  /\ cname = [c \in Calls |-> NoName]
  /\ parent = [c \in Calls |-> 0]
  /\ resumed = [c \in Calls |-> FALSE]
  /\ result = [c \in Calls |-> "none"]
  /\ auth = [c \in Calls |-> Absent]
  /\ live = [c \in Calls |-> FALSE]
  /\ sockets = [n \in Names |-> None]
  /\ tokens = [n \in Names |-> Absent]
  /\ subjects = {}
  /\ subscribedTo = [s \in Subscribers |-> NoName]
  /\ received = [s \in Subscribers |-> <<>>]
  /\ subAt = [s \in Subscribers |-> 0]
  /\ pubLog = [n \in Names |-> <<>>]
  /\ owed = [s \in Subscribers |-> {}]
  /\ closeCode = [c \in Calls |-> NoStatus]
  /\ purged = {}
  /\ nEvents = 0
  /\ opened = [c \in Calls |-> 0]
  /\ lookup = NoLookup

\* ---- helpers

\* The next invocation gets the lowest unused call id.
IdleCalls == {c \in Calls : pc[c] = "idle"}
Started == Calls \ IdleCalls
NextCall == CHOOSE c \in IdleCalls : \A d \in IdleCalls : c <= d

\* An update is identified by its place in the order of emission; this is
\* the update being handled now.
NextEvent == nEvents + 1

\* useMultiFileAuthState(`tokens/${name}`): creates the folder when it is
\* missing (fresh credentials), and returns the stored blob.
useMultiFileAuthState(n) ==
  IF tokens[n] = Absent THEN [tokens EXCEPT ![n] = "fresh"] ELSE tokens

\* saveCreds(): writes creds.json into tokens/<name>; writeFile does not
\* create a missing folder, the write then fails (unawaited).
saveCreds(n, blob) ==
  IF tokens[n] = Absent THEN tokens ELSE [tokens EXCEPT ![n] = blob]

\* path.resolve(this.tokensFolder) without the name: the whole tokens folder.
resolveTokensFolderPath_Root(n) == Names

\* resolveTokensFolderPath(name): the folders handleLoggedOut deletes.
resolveTokensFolderPath(n) == {n}

\* A logout handler that has not deleted the folder when it returns.
handleLoggedOut_Deferred(n) == tokens

\* handleLoggedOut(name): deleteFolderRecursive(tokens/<name>).
handleLoggedOut(n) ==
  [m \in Names |-> IF m \in resolveTokensFolderPath(n) THEN Absent ELSE tokens[m]]

\* Subject.next(update): delivers to the observers subscribed now; a Subject
\* keeps nothing for later observers.
SubjectNext(n, e) ==
  /\ pubLog' = [pubLog EXCEPT ![n] = Append(@, e)]
  /\ received' = [s \in Subscribers |->
                    IF subscribedTo[s] = n THEN Append(received[s], e) ELSE received[s]]

\* Lines 86-88: emit the update on the name's Subject when there is one.
Publish(n, e) ==
  IF n \in subjects THEN SubjectNext(n, e) ELSE UNCHANGED <<pubLog, received>>

\* getExistingSessionNames(): fs.readdir(tokensFolder).
getExistingSessionNames == {n \in Names : tokens[n] # Absent}

\* A lookup that returns the socket last opened for the name, closed or not.
getSocketByName_Last(n) ==
  IF \E c \in Calls : cname[c] = n /\ pc[c] = "done"
  THEN CHOOSE c \in Calls :
         /\ cname[c] = n /\ pc[c] = "done"
         /\ \A d \in Calls : (cname[d] = n /\ pc[d] = "done") => d <= c
  ELSE None

\* getSocketByName(name): this.sockets.get(name).
getSocketByName(n) == sockets[n]

\* ---- createSocketWhatsApp

\* Lines 35-38: the call runs up to `await useMultiFileAuthState(...)`.
\* ev is the update whose handler makes the call, 0 for an outside caller.
StartCall(c, n, ev) ==
  /\ pc' = [pc EXCEPT ![c] = "called"]
  /\ cname' = [cname EXCEPT ![c] = n]
  /\ parent' = [parent EXCEPT ![c] = ev]
  /\ result' = [result EXCEPT ![c] = "pending"]
  /\ purged' = purged \ {n}
  /\ UNCHANGED resumed

\* An outside caller invokes createSocketWhatsApp(name); the run has had
\* fewer than maxc calls.
createSocketWhatsAppWithin(n, maxc) ==
  /\ Cardinality(Started) < maxc
  /\ StartCall(NextCall, n, 0)
  /\ UNCHANGED <<auth, live, sockets, tokens, subVars, received, pubLog, owed,
                 closeCode, nEvents, opened, lookup>>

createSocketWhatsApp(n) == createSocketWhatsAppWithin(n, MaxCalls)

\* Line 38: the credential load completes.  When it throws inside the async
\* executor of `new Promise`, nothing calls resolve or reject: the promise
\* stays pending for ever.
LoadCreds(c) ==
  /\ pc[c] = "called"
  /\ \E ok \in BOOLEAN :
       IF ok
       THEN /\ tokens' = useMultiFileAuthState(cname[c])
            /\ auth' = [auth EXCEPT ![c] = tokens'[cname[c]]]
            /\ pc' = [pc EXCEPT ![c] = "loaded"]
       ELSE /\ pc' = [pc EXCEPT ![c] = "loadFailed"]
            /\ UNCHANGED <<tokens, auth>>
  /\ UNCHANGED <<cname, parent, resumed, result, live, sockets, subVars,
                 received, pubLog, owed, closeCode, purged, nEvents, opened, lookup>>

\* A reconnect that opens with new credentials instead of the loaded ones.
OpenWith_Fresh(c) == "fresh"

\* The blob line 40 hands to makeWASocket: the loaded `state`.
OpenWith(c) == auth[c]

\* Lines 77-88: createSocketWhatsApp has resolved; the handler of the
\* restartRequired update that awaits call c continues and emits the update.
\* resolve() queues the continuation as a microtask: it runs before any
\* socket event, timer or request, so it belongs to the job that resolves.
ReconnectResume(c) ==
  /\ resumed' = [resumed EXCEPT ![c] = TRUE]
  /\ Publish(cname[c], parent[c])

\* Lines 40-53: makeWASocket, the two listeners, sockets.set, resolve().
\* makeWASocket returns the socket at once; a connection that cannot be
\* established shows later as a connection.update with connection "close".
OpenSocket(c) ==
  /\ pc[c] = "loaded"
  /\ auth' = [auth EXCEPT ![c] = OpenWith(c)]
  /\ live' = [live EXCEPT ![c] = TRUE]
  /\ sockets' = [sockets EXCEPT ![cname[c]] = c]
  /\ pc' = [pc EXCEPT ![c] = "done"]
  /\ result' = [result EXCEPT ![c] = "Accepted"]
  /\ IF parent[c] # 0
     THEN ReconnectResume(c)
     ELSE UNCHANGED <<resumed, pubLog, received>>
  /\ UNCHANGED <<cname, parent, tokens, subVars, owed, closeCode, purged, nEvents,
                 opened, lookup>>

\* Lines 42-44: the socket of call h emits creds.update: it has updated the
\* blob it was opened with, and the listener saves that blob.
CredsUpdate(h) ==
  /\ pc[h] = "done"
  /\ tokens' = saveCreds(cname[h], "paired")
  /\ UNCHANGED <<callVars, auth, live, sockets, subVars, received, pubLog, owed,
                 closeCode, purged, nEvents, opened, lookup>>

\* ---- handleConnectionUpdate

\* `else` in place of the `else if` of line 76: every close but a logout reconnects.
Reconnects_Else(u) == u.connection = "close" /\ u.statusCode # loggedOut

\* Line 76: the updates that reconnect.
Reconnects(u) == u.connection = "close" /\ u.statusCode = restartRequired

\* A handler whose "open" branch purges the credentials as a logout does.
Purges_OnOpen(u) ==
  \/ u.connection = "close" /\ u.statusCode = loggedOut
  \/ u.connection = "open"

\* Line 72: the updates that purge the credentials.
Purges(u) == u.connection = "close" /\ u.statusCode = loggedOut

\* Lines 47-49 and 62-89: the live socket of call h emits connection.update
\* with `update` u.  For restartRequired the handler runs to the await of
\* line 77; otherwise it runs to its end.  The run has had fewer than maxe
\* events, and fewer than maxc calls when the update makes one.
handleConnectionUpdateWithin(h, u, maxc, maxe) ==
  /\ live[h]
  /\ nEvents < maxe
  /\ nEvents' = NextEvent
  /\ owed' = [s \in Subscribers |->
                IF subscribedTo[s] = cname[h] THEN owed[s] \cup {NextEvent} ELSE owed[s]]
  /\ closeCode' = IF u.connection = "close"
                  THEN [closeCode EXCEPT ![h] = u.statusCode]
                  ELSE closeCode
  /\ live' = [live EXCEPT ![h] = u.connection # "close"]
  /\ sockets' = IF u.connection = "close"
                THEN [sockets EXCEPT ![cname[h]] = None]
                ELSE sockets
  /\ tokens' = IF Purges(u) THEN handleLoggedOut(cname[h]) ELSE tokens
  /\ IF Reconnects(u)
     THEN /\ Cardinality(Started) < maxc
          /\ StartCall(NextCall, cname[h], NextEvent)
          /\ UNCHANGED <<pubLog, received>>
     ELSE /\ Publish(cname[h], NextEvent)
          /\ purged' = IF Purges(u) THEN purged \cup {cname[h]} ELSE purged
          /\ UNCHANGED callVars
  /\ UNCHANGED <<auth, subVars, lookup>>

handleConnectionUpdate(h, u) ==
  /\ handleConnectionUpdateWithin(h, u, MaxCalls, MaxEvents)
  /\ UNCHANGED opened

\* The same handler in a run that keeps the history variable opened: line 80
\* is reached once more for the socket of call h.
handleConnectionUpdateLogged(h, u, maxc, maxe) ==
  /\ handleConnectionUpdateWithin(h, u, maxc, maxe)
  /\ opened' = IF u.connection = "open" THEN [opened EXCEPT ![h] = @ + 1] ELSE opened

\* ---- getConnectionUpdateObservable

\* A lookup that replaces the whole table by the one Subject it creates.
getConnectionUpdateObservable_Reset(n) == {n}

\* Lines 96-101: the Subject of the name, created on first use.
getConnectionUpdateObservable(n) == subjects \cup {n}

\* A ReplaySubject in place of the Subject: a new observer is handed the past.
OnSubscribe_Replay(n) == pubLog[n]

\* What a new observer of the Subject of n is handed on subscribing: nothing.
OnSubscribe(n) == <<>>

\* getConnectionUpdateObservable(name).subscribe(...).  The observers are
\* interchangeable: s2 stands for the second one to subscribe.
Subscribe(s, n) ==
  /\ subscribedTo[s] = NoName
  /\ s = "s2" => subscribedTo["s1"] # NoName
  /\ subjects' = getConnectionUpdateObservable(n)
  /\ subscribedTo' = [subscribedTo EXCEPT ![s] = n]
  /\ subAt' = [subAt EXCEPT ![s] = Len(pubLog[n])]
  /\ received' = [received EXCEPT ![s] = OnSubscribe(n)]
  /\ UNCHANGED <<callVars, auth, live, sockets, tokens, pubLog, owed, closeCode,
                 purged, nEvents, opened, lookup>>

Next ==
  \/ \E n \in Names : createSocketWhatsApp(n)
  \/ \E c \in Calls : LoadCreds(c)
  \/ \E c \in Calls : OpenSocket(c)
  \/ \E h \in Calls : CredsUpdate(h)
  \/ \E h \in Calls, u \in Updates : handleConnectionUpdate(h, u)
  \/ \E s \in Subscribers, n \in Names : Subscribe(s, n)

Spec == Init /\ [][Next]_vars

\* getSocketByName(name) is called: a read of this.sockets.  One call is
\* observed in a run, after any number of steps of the program.
GetSocketByName(n) ==
  /\ lookup = NoLookup
  /\ lookup' = [name |-> n, socket |-> getSocketByName(n)]
  /\ UNCHANGED <<callVars, auth, live, sockets, tokens, subVars, received, pubLog,
                 owed, closeCode, purged, nEvents, opened>>

NextQuery ==
  \/ lookup = NoLookup /\ Next
  \/ \E n \in Names : GetSocketByName(n)

SpecQuery == Init /\ [][NextQuery]_vars

\* The program with one observer, in runs that keep the history variable
\* opened.
NextOpen ==
  \/ \E n \in Names : createSocketWhatsApp(n)
  \/ \E c \in Calls : LoadCreds(c)
  \/ \E c \in Calls : OpenSocket(c)
  \/ \E h \in Calls : CredsUpdate(h)
  \/ \E h \in Calls, u \in Updates :
       handleConnectionUpdateLogged(h, u, MaxCalls, MaxEvents)
  \/ \E n \in Names : Subscribe("s1", n)

SpecOpen == Init /\ [][NextOpen]_vars

\* The same in runs of one call and one event more.
NextWide ==
  \/ \E n \in Names : createSocketWhatsAppWithin(n, WideCalls)
  \/ \E c \in Calls : LoadCreds(c)
  \/ \E c \in Calls : OpenSocket(c)
  \/ \E h \in Calls : CredsUpdate(h)
  \/ \E h \in Calls, u \in Updates :
       handleConnectionUpdateLogged(h, u, WideCalls, WideEvents)
  \/ \E n \in Names : Subscribe("s1", n)

SpecWide == Init /\ [][NextWide]_vars

TypeOK ==
  /\ pc \in [Calls -> {"idle", "called", "loaded", "done", "loadFailed"}]
  /\ cname \in [Calls -> Names \cup {NoName}]
  /\ parent \in [Calls -> 0..WideEvents]
  /\ resumed \in [Calls -> BOOLEAN]
  /\ result \in [Calls -> {"none", "pending", "Accepted", "AlreadyExists", "TransportError"}]
  /\ auth \in [Calls -> {Absent} \cup Creds]
  /\ live \in [Calls -> BOOLEAN]
  /\ sockets \in [Names -> {None} \cup Calls]
  /\ tokens \in [Names -> {Absent} \cup Creds]
  /\ subjects \subseteq Names
  /\ subscribedTo \in [Subscribers -> Names \cup {NoName}]
  /\ pubLog \in [Names -> Seq(1..WideEvents)]
  /\ received \in [Subscribers -> Seq(1..WideEvents)]
  /\ owed \in [Subscribers -> SUBSET (1..WideEvents)]
  /\ closeCode \in [Calls -> StatusCodes]
  /\ purged \subseteq Names
  /\ nEvents \in 0..WideEvents
  /\ opened \in [Calls -> 0..WideEvents]
  /\ lookup \in [name : Names \cup {NoName}, socket : {None} \cup Calls]

\* ---- the claims

\* The handles of a name that are opened and have not closed.
LiveHandles(n) == {h \in Calls : live[h] /\ cname[h] = n}

\* C1: when createSession(name) calls run concurrently for a name that had
\* no registry entry, exactly one of them inserts an entry and opens a
\* transport; every other one returns AlreadyExists and opens nothing.
\* Stated on the steps of a call d that is still in flight when a call c for
\* the same name, started after d, has already inserted the first entry of
\* the name (no close was handled yet): d must not open a transport.
C1_OneWinnerPerName ==
  [][\A c, d \in Calls :
       (/\ d < c
        /\ cname[c] = cname[d]
        /\ parent[c] = 0 /\ parent[d] = 0
        /\ pc[d] \in InFlight
        /\ pc[c] = "done" /\ sockets[cname[c]] = c
        /\ nEvents = 0
        /\ \A e \in Calls \ {c} : ~(cname[e] = cname[c] /\ pc[e] = "done"))
       => (/\ pc'[d] # "done"
           /\ ~live'[d]
           /\ sockets'[cname[c]] # d)]_vars

\* C2: in every reachable state each session name has at most one live
\* (opened and not yet closed) transport handle.
C2_AtMostOneLiveHandle ==
  \A n \in Names : Cardinality(LiveHandles(n)) <= 1

\* C3: after a Closed(LoggedOut) event for a name has been handled, the
\* credential material of the name is absent from the store and the name is
\* absent from the registry, and both stay absent until a later
\* createSession(name).
C3_PurgedStaysAbsent ==
  \A n \in purged : tokens[n] = Absent /\ sockets[n] = None
\* The calls made by handlers of restartRequired closes, and the handles
\* whose restartRequired close was handled.
ReconnectCalls == {c \in Calls : parent[c] # 0}
RestartsHandled == {h \in Calls : closeCode[h] = restartRequired}

\* A session is Reconnecting while a reconnect call for its name is in flight.
Reconnecting(n) == \E c \in ReconnectCalls : cname[c] = n /\ pc[c] \in InFlight

\* C4 as first stated: each Closed(RestartRequired) event causes exactly one
\* new transport open call for the name: the opens reconnects have issued or
\* still have in flight are as many as the RestartRequired events handled.
C4_OneOpenPerRestart ==
  Cardinality({c \in ReconnectCalls : pc[c] \in InFlight \cup {"done"}})
    = Cardinality(RestartsHandled)

\* C4 as amended: each handled Closed(RestartRequired) starts exactly one
\* reconnect call and no other event starts one; the reconnect loads the
\* credentials stored for its name, then issues one open with exactly the
\* loaded credentials; a reconnect whose credential load fails opens nothing.
C4_ReconnectOpens ==
  [][/\ Cardinality(ReconnectCalls') = Cardinality(RestartsHandled')
     /\ \A c \in Calls :
          /\ (pc[c] = "idle" /\ pc'[c] # "idle" /\ parent'[c] # 0)
               => /\ pc'[c] = "called"
                  /\ \E h \in Calls : /\ cname[h] = cname'[c]
                                       /\ live[h] /\ ~live'[h]
                                       /\ closeCode'[h] = restartRequired
          /\ (parent[c] # 0 /\ pc[c] = "called" /\ pc'[c] = "loaded")
               => /\ auth'[c] = tokens'[cname[c]]
                  /\ tokens[cname[c]] # Absent => auth'[c] = tokens[cname[c]]
          /\ (parent[c] # 0 /\ pc[c] = "loaded" /\ pc'[c] # "loaded")
               => (pc'[c] = "done" /\ live'[c] /\ auth'[c] = auth[c])
          /\ (pc'[c] = "done" /\ pc[c] # "done") => pc[c] = "loaded"
          /\ pc'[c] = "loadFailed" => ~live'[c]]_vars

\* C4 witness: a reconnect has opened its socket with credentials that an
\* earlier socket had updated and saved.
C4_Witness ==
  \E c \in ReconnectCalls : pc[c] = "done" /\ auth[c] = "paired"

\* C5: a Closed event whose reason code is neither LoggedOut nor
\* RestartRequired (or that has no code) removes the registry entry of the
\* name, starts no createSession call and opens no transport, and leaves the
\* stored credentials unchanged.  The step that handles the close of handle
\* h is the one in which h stops being live; closeCode then holds its code.
C5_OtherCloseIsTerminal ==
  [][\A h \in Calls :
       (live[h] /\ ~live'[h] /\ closeCode'[h] \notin {loggedOut, restartRequired})
       => /\ sockets'[cname[h]] = None
          /\ pc' = pc
          /\ live' = [live EXCEPT ![h] = FALSE]
          /\ tokens' = tokens]_vars

\* C5 witness: one socket has closed with another reason code and one with
\* none; their name has no registry entry and still has its credentials.
C5_Witness ==
  \E h, k \in Calls :
    /\ pc[h] = "done" /\ ~live[h] /\ closeCode[h] = connectionClosed
    /\ pc[k] = "done" /\ ~live[k] /\ closeCode[k] = NoStatus /\ k # h
    /\ sockets[cname[h]] = None /\ tokens[cname[h]] # Absent
\* C6: every createSession(name) call completes with Accepted, AlreadyExists
\* or TransportError, without waiting for a transport event; a call whose
\* credential load fails returns TransportError instead of never settling.
\* Stated of the calls that have stopped running.
C6_EveryCallSettles ==
  \A c \in Calls :
    pc[c] \notin {"idle"} \cup InFlight
      => result[c] \in {"Accepted", "AlreadyExists", "TransportError"}

\* How often update e occurs in a sequence of updates.
Occurrences(seq, e) == Cardinality({i \in 1..Len(seq) : seq[i] = e})

\* The handler of update e still has steps to take: it awaits a reconnect
\* call that is in flight.
HandlerRunning(e) ==
  \E c \in Calls :
    parent[c] = e /\ (pc[c] \in InFlight \/ (pc[c] = "done" /\ ~resumed[c]))

\* C7: every transport lifecycle event handled for a name is published
\* exactly once to every subscriber subscribed to the name when the event is
\* handled, whichever branch it takes and whether or not the reconnect
\* succeeds.  Stated of the events whose handler has no step left to take.
C7_EveryEventPublishedOnce ==
  \A s \in Subscribers : \A e \in owed[s] :
    HandlerRunning(e) \/ Occurrences(received[s], e) = 1

\* C8: a subscriber receives exactly the updates published for its name
\* after it subscribed, none of those published before.
C8_NoReplay ==
  \A s \in Subscribers :
    subscribedTo[s] # NoName
      => received[s] = SubSeq(pubLog[subscribedTo[s]], subAt[s] + 1,
                              Len(pubLog[subscribedTo[s]]))

\* C8 witness: a subscriber that subscribed after an update had been
\* published for its name has received a later one.
C8_Witness ==
  \E s \in Subscribers :
    subscribedTo[s] # NoName /\ subAt[s] > 0 /\ received[s] # <<>>

\* The steps that handle a transport event or run a createSession call of
\* name n: a call of n moves, a socket of n closes, the handler of a close of
\* n resumes, or something kept under n changes.
OpOn(n) ==
  \/ \E c \in Calls :
       /\ cname'[c] = n
       /\ (pc'[c] # pc[c] \/ live'[c] # live[c] \/ resumed'[c] # resumed[c])
  \/ sockets'[n] # sockets[n]
  \/ tokens'[n] # tokens[n]
  \/ pubLog'[n] # pubLog[n]

\* The subscribers of a name.
SubscribersOf(n) == {s \in Subscribers : subscribedTo[s] = n}

C10_ListCoversRegistry ==
  \A n \in Names : getSocketByName(n) # None => n \in getExistingSessionNames

\* C11: for every name that has no registry entry (never created, or removed
\* after a terminal close), getSession(name) reports NotFound (here: returns
\* no socket) and changes neither the registry, the credential store nor the
\* subscribers.
C11_LookupOfAbsentName ==
  [][\A n \in Names :
       (lookup = NoLookup /\ lookup' # NoLookup /\ lookup'.name = n
        /\ sockets[n] = None)
       => /\ lookup'.socket = None
          /\ sockets' = sockets
          /\ tokens' = tokens
          /\ subjects' = subjects
          /\ subscribedTo' = subscribedTo
          /\ received' = received]_vars

\* C11 witness: the lookup of a name whose socket had closed with another
\* reason code (the entry was removed, the credentials are kept, an observer
\* is subscribed) has returned nothing, while another name never had a call.
C11_Witness ==
  \E h \in Calls, m \in Names :
    /\ lookup.name = cname[h] /\ lookup.socket = None
    /\ pc[h] = "done" /\ ~live[h] /\ closeCode[h] = connectionClosed
    /\ tokens[cname[h]] # Absent /\ SubscribersOf(cname[h]) # {}
    /\ \A c \in Calls : cname[c] # m

\* The session of name n is in a non-terminal state: a socket of n is
\* opened and has not closed (AwaitingPairing, Open), or a reconnect of n is
\* in flight (Reconnecting).  A first createSession still loading its
\* credentials is left out of both sides.
NonTerminal(n) == LiveHandles(n) # {} \/ Reconnecting(n)

\* C12: in every reachable state a name has a registry entry if and only if
\* its session state is non-terminal; in particular a session in state
\* Reconnecting keeps its registry entry while the reconnect is in flight.
C12_EntryIffNonTerminal ==
  \A n \in Names :
    /\ sockets[n] # None => sockets[n] \in LiveHandles(n)
    /\ NonTerminal(n) => sockets[n] # None

\* C13: for a session in state Open, after Closed(RestartRequired) is handled
\* and the reopened transport emits Opened, the session is Open again and the
\* registry holds exactly one entry for the name, the handle opened by the
\* reconnect.  Stated on the steps in which the socket of a reconnect call c
\* emits its first "open", every socket of the name that closed with
\* restartRequired having emitted "open" before it closed.
C13_ReconnectedHandleRegistered ==
  [][\A c \in ReconnectCalls :
       (/\ opened[c] = 0 /\ opened'[c] = 1
        /\ \A h \in RestartsHandled : cname[h] = cname[c] => opened[h] > 0)
       => /\ live'[c]
          /\ sockets'[cname[c]] = c]_vars

\* C14: an Opened event handled while the session is already Open is a
\* no-op: the session stays Open, the registry entry and the stored
\* credentials are unchanged and no transport open call is issued.  Stated
\* on the steps in which a socket that has emitted "open" and has not closed
\* emits "open" again.
C14_OpenedWhileOpenIsNoOp ==
  [][\A h \in Calls :
       (live[h] /\ opened[h] >= 1 /\ opened'[h] = opened[h] + 1)
       => /\ live' = live
          /\ sockets' = sockets
          /\ tokens' = tokens
          /\ pc' = pc /\ cname' = cname /\ auth' = auth]_vars

\* C14 witness: a registered socket has emitted "open" twice.
C14_Witness ==
  \E h \in Calls :
    /\ opened[h] = 2 /\ live[h]
    /\ sockets[cname[h]] = h /\ tokens[cname[h]] # Absent

\* C15: a Closed event removes from the registry only the handle that
\* emitted it: when the socket that closes is not the one registered under
\* its name, the registered one stays in the registry.
C15_CloseRemovesOwnHandleOnly ==
  [][\A h \in Calls :
       (/\ live[h] /\ ~live'[h]
        /\ sockets[cname[h]] # None /\ sockets[cname[h]] # h)
       => sockets'[cname[h]] = sockets[cname[h]]]_vars

\* C16: for one session name, subscribers receive the published updates in
\* the order in which the transport emitted the events, also when a
\* Closed(RestartRequired) is being handled and further events of the name
\* arrive meanwhile.  An update is numbered by its place in the order of
\* emission.
C16_ReceivedInEmissionOrder ==
  \A s \in Subscribers :
    \A i, j \in 1..Len(received[s]) : i < j => received[s][i] < received[s][j]

\* The last update observer s received.
LastReceived(s) == received[s][Len(received[s])]

\* C17: the policy action of a Closed event is applied before the event is
\* published: when a subscriber receives a Closed(LoggedOut) update the
\* registry entry is already removed and the credentials already purged, and
\* when it receives a Closed(RestartRequired) update the replacement handle
\* is already registered under the name.  Stated on the steps in which an
\* observer receives an update: that of the logout close handled in the
\* step, or the one the reconnect call resolving in the step was made for.
C17_PolicyBeforePublish ==
  [][\A s \in Subscribers :
       Len(received'[s]) = Len(received[s]) + 1
       => /\ \A h \in Calls :
               (live[h] /\ ~live'[h] /\ closeCode'[h] = loggedOut)
               => /\ subscribedTo[s] = cname[h]
                  /\ sockets'[cname[h]] = None
                  /\ tokens'[cname[h]] = Absent
          /\ \A c \in ReconnectCalls :
               LastReceived(s)' = parent[c]
               => /\ subscribedTo[s] = cname[c]
                  /\ pc'[c] = "done" /\ live'[c]
                  /\ sockets'[cname[c]] = c]_vars

\* C17 witness: an observer has received the restartRequired close of one
\* socket of its name and then the loggedOut close of the socket the
\* reconnect opened.
C17_Witness ==
  \E s \in Subscribers, h, c \in Calls :
    /\ closeCode[h] = restartRequired /\ ~live[h]
    /\ parent[c] # 0 /\ cname[c] = cname[h] /\ subscribedTo[s] = cname[h]
    /\ closeCode[c] = loggedOut /\ pc[c] = "done" /\ ~live[c]
    /\ received[s] = <<parent[c], nEvents>>

\* C18: the publish point of a name survives every lifecycle transition: no
\* step removes or completes a Subject or drops an observer, and an update
\* handled for the name of an observer by a handler that runs to its end in
\* the step (any update but a restartRequired close) reaches the observer
\* whichever socket of the name emitted it: the first one, the one a
\* reconnect opened, or the one of a later createSession.
C18_SubjectSurvives ==
  [][/\ subjects \subseteq subjects'
     /\ \A s \in Subscribers :
          /\ subscribedTo[s] # NoName
               => /\ subscribedTo'[s] = subscribedTo[s]
                  /\ subscribedTo[s] \in subjects'
                  /\ Len(received'[s]) >= Len(received[s])
          /\ (nEvents' = nEvents + 1 /\ nEvents' \in owed'[s] /\ pc' = pc)
               => received'[s] = Append(received[s], nEvents')]_vars

\* C18 witness: an observer that subscribed once has received the
\* restartRequired close of the first socket of its name and then an update
\* the socket opened by the reconnect emitted, which is still registered.
C18_Witness ==
  \E s \in Subscribers, h, c \in Calls :
    /\ cname[c] = cname[h] /\ subscribedTo[s] = cname[h]
    /\ parent[h] = 0 /\ ~live[h] /\ closeCode[h] = restartRequired
    /\ parent[c] = 1 /\ live[c] /\ sockets[cname[c]] = c
    /\ nEvents = 2 /\ received[s] = <<1, 2>>
====
